---- MODULE Spec2Model ----
(***************************************************************************)
(* Model of package supervisor (src/supervisor/supervisor.go): Start, the  *)
(* supervising goroutine it spawns, the recover() boundary around each     *)
(* worker call and the exponential backoff between calls.                  *)
(*                                                                         *)
(* Durations.  time.Duration is a signed 64-bit count of nanoseconds and   *)
(* the backoff step goes through float64 (53-bit significand).  The model  *)
(* keeps both effects, two's-complement wraparound of backoff*2 and the    *)
(* rounding of the int -> float64 conversion, at a reduced width:          *)
(* DurationBits-bit signed integers counting milliseconds and              *)
(* MantissaBits-bit significands.  With these widths the defaults (1s,     *)
(* 30s) lie far below both the rounding and the wraparound thresholds, as  *)
(* they do in the program.                                                 *)
(***************************************************************************)
EXTENDS Integers, Sequences, FiniteSets

\* ---------------------------------------------------------------- bounds

\* Invocations of the worker explored per supervising task.
MaxInvocations == 4

\* ------------------------------------------------------------- durations

DurationBits == 30
MantissaBits == 25

Millisecond == 1
Second == 1000 * Millisecond

Pow2(n) == 2 ^ n

MinDuration == 0 - Pow2(DurationBits - 1)
MaxDuration == Pow2(DurationBits - 1) - 1

\* Signed integer arithmetic wraps around silently (backoff*2, line 94).
WrapInt(n) ==
    LET m == n % Pow2(DurationBits)
    IN  IF m >= Pow2(DurationBits - 1) THEN m - Pow2(DurationBits) ELSE m

Abs(n) == IF n < 0 THEN 0 - n ELSE n

\* Number of binary digits of n >= 0.
BitLen(n) ==
    CHOOSE k \in 0..DurationBits : n < Pow2(k) /\ (k = 0 \/ Pow2(k - 1) <= n)

\* float64(d): the nearest value with a MantissaBits-bit significand, ties
\* to even.  The results are integers, so floats are modelled as integers.
ToFloat64(n) ==
    LET a   == Abs(n)
        len == BitLen(a)
    IN  IF len <= MantissaBits THEN n
        ELSE LET ulp == Pow2(len - MantissaBits)
                 q   == a \div ulp
                 r   == a % ulp
                 up  == \/ 2 * r > ulp
                        \/ 2 * r = ulp /\ q % 2 = 1
                 m   == IF up THEN (q + 1) * ulp ELSE q * ulp
             IN  IF n < 0 THEN 0 - m ELSE m

\* math.Min on two finite floats.
MathMin(x, y) == IF x < y THEN x ELSE y

\* time.Duration(f): exact when f is in range.  Out of range the Go
\* specification leaves the result to the implementation: amd64 yields the
\* minimum integer, arm64 saturates.
FromFloat64(f) ==
    IF MinDuration <= f /\ f <= MaxDuration THEN {f}
    ELSE {MinDuration, MaxDuration}

\* The values line 94 can assign to backoff.
NextBackoff(backoff, max) ==
    FromFloat64(MathMin(ToFloat64(WrapInt(backoff * 2)), ToFloat64(max)))

\* ---------------------------------------------------------------- inputs

\* Backoff settings a caller may pass: unset (0), negative, the values of
\* the tests (10ms, 50ms), the defaults (1s, 30s), a value whose
\* double is rounded by float64, one whose double wraps around, and the
\* largest duration.
DurationInputs ==
    { 0 - 10 * Millisecond, 0, 10 * Millisecond, 50 * Millisecond,
      1 * Second, 30 * Second,
      Pow2(MantissaBits) + 1, Pow2(DurationBits - 2) + 1, MaxDuration }

LoggerInputs == {"nil", "custom"}

Config == [MinBackoff : DurationInputs, MaxBackoff : DurationInputs,
           Logger : LoggerInputs]

NoConfig == [MinBackoff |-> 0, MaxBackoff |-> 0, Logger |-> "nil"]

DefaultConfig ==
    [MinBackoff |-> 1 * Second, MaxBackoff |-> 30 * Second, Logger |-> "default"]

\* Workers: the closures of the tests and of the package documentation.
\*   returns          returns at once
\*   crashes          panics on every invocation
\*   crashesNil       calls panic(nil) on every invocation
\*   crashThenReturn  panics on its first invocation, returns afterwards
\*   crashThenWait    panics on its first invocation, afterwards blocks on
\*                    ctx.Done() and then returns
\*   waitsForCancel   blocks on ctx.Done() and then returns
\*   ignoresCancel    never returns
\*   arbitrary        may return or panic at any time, or run on
WorkerKinds ==
    {"returns", "crashes", "crashesNil", "crashThenReturn", "crashThenWait",
     "waitsForCancel", "ignoresCancel", "arbitrary"}

\* The configurations and workers of the runs with two Start calls
\* (SpecTwo): the test's 10ms/50ms, a defaulted MaxBackoff, a MinBackoff
\* above MaxBackoff; a worker that panics and one that returns.
TwoConfigs ==
    [MinBackoff : {10 * Millisecond, 1 * Second},
     MaxBackoff : {0, 50 * Millisecond},
     Logger : {"custom"}]

TwoWorkers == {"crashes", "returns"}

\* Configurations with MinBackoff > MaxBackoff > 0, which Start accepts:
\* small bounds, a MaxBackoff that float64 rounds upwards, and MinBackoff
\* values whose double wraps around.
InvertedConfigs ==
    {c \in [MinBackoff : {50 * Millisecond, 1 * Second, Pow2(MantissaBits) + 5,
                          Pow2(DurationBits - 2) + 1, MaxDuration},
            MaxBackoff : {10 * Millisecond, 50 * Millisecond,
                          Pow2(MantissaBits) + 3, Pow2(DurationBits - 2) + 1},
            Logger : {"custom"}] :
        c.MinBackoff > c.MaxBackoff}

\* Panic payloads: a value, and the nil of panic(nil).
Payloads == {"boom", "nil"}

Tasks == {1, 2}

\* ----------------------------------------------------------------- state

VARIABLES
    cancelled,    \* ctx.Done() is closed
    pending,      \* Start calls the caller has still to make
    input,        \* input[t]: the Config passed to Start
    worker,       \* worker[t]: the worker passed to Start
    cfg,          \* cfg[t]: Start's local copy of the Config, resolved
    pc,           \* pc[t]: where the supervising goroutine is
    backoff,      \* backoff[t]: the goroutine's local backoff
    invocations,  \* invocations[t]: calls of worker(ctx) begun
    active,       \* active[t]: calls of worker(ctx) in progress
    waits,        \* waits[t]: the durations of the completed time.Sleep calls
    log,          \* log[t]: the lines written to cfg.Logger, in order
    firedAt,      \* firedAt[t]: where task t was when the signal fired
    build         \* what recover() yields for panic(nil) in this build

vars == <<cancelled, pending, input, worker, cfg, pc, backoff, invocations,
          active, waits, log, firedAt, build>>

\* firedAt[t] while the signal has not fired.  When it fires, firedAt[t]
\* records the invocations begun and the waits completed so far, and
\* whether the loop stood between its select and the call of the worker.
NotFired == [fired |-> FALSE, invocations |-> 0, waits |-> 0, checked |-> FALSE]

StopNotice == [kind |-> "stop", payload |-> "", delay |-> 0]
CrashNotice(p) == [kind |-> "crash", payload |-> p, delay |-> 0]
RestartNotice(d) == [kind |-> "restart", payload |-> "", delay |-> d]

Init ==
    /\ cancelled = FALSE
    /\ pending = {1}
    /\ input = [t \in Tasks |-> NoConfig]
    /\ worker = [t \in Tasks |-> "returns"]
    /\ cfg = [t \in Tasks |-> NoConfig]
    /\ pc = [t \in Tasks |-> "idle"]
    /\ backoff = [t \in Tasks |-> 0]
    /\ invocations = [t \in Tasks |-> 0]
    /\ active = [t \in Tasks |-> 0]
    /\ waits = [t \in Tasks |-> <<>>]
    /\ log = [t \in Tasks |-> <<>>]
    /\ firedAt = [t \in Tasks |-> NotFired]
    /\ build = "unknown"

\* --------------------------------------------------------------- actions

\* Resolve that falls back to DefaultConfig() as a whole when a field is
\* unset.
ResolveWhole(c) ==
    IF c.MinBackoff = 0 \/ c.MaxBackoff = 0 \/ c.Logger = "nil"
    THEN DefaultConfig
    ELSE c

\* Lines 59-67: defaulting of the three fields.
Resolve(c) ==
    [MinBackoff |-> IF c.MinBackoff = 0 THEN 1 * Second ELSE c.MinBackoff,
     MaxBackoff |-> IF c.MaxBackoff = 0 THEN 30 * Second ELSE c.MaxBackoff,
     Logger     |-> IF c.Logger = "nil" THEN "default" ELSE c.Logger]

\* Start(ctx, cfg, worker) with the arguments drawn from configs and
\* workers: resolves the configuration, spawns the goroutine (line 69) and
\* returns.
StartWith(t, configs, workers) ==
    /\ t \in pending
    /\ \E c \in configs, w \in workers :
          /\ input' = [input EXCEPT ![t] = c]
          /\ worker' = [worker EXCEPT ![t] = w]
          /\ cfg' = [cfg EXCEPT ![t] = Resolve(c)]
    /\ pending' = pending \ {t}
    /\ pc' = [pc EXCEPT ![t] = "spawned"]
    /\ UNCHANGED <<firedAt, build, cancelled, backoff, invocations, active, waits, log>>

Start(t) == StartWith(t, Config, WorkerKinds)

\* A Start call of a caller that makes several.
StartTwo(t) == StartWith(t, TwoConfigs, TwoWorkers)

\* The caller cancels the context.
Cancel ==
    /\ ~cancelled
    /\ cancelled' = TRUE
    /\ firedAt' = [t \in Tasks |->
                      [fired |-> TRUE, invocations |-> invocations[t],
                       waits |-> Len(waits[t]), checked |-> pc[t] = "invoke"]]
    /\ UNCHANGED <<build, pending, input, worker, cfg, pc, backoff, invocations,
                   active, waits, log>>

\* LoopInit that leaves backoff at its zero value.
LoopInitZero(t) ==
    /\ pc[t] = "spawned"
    /\ backoff' = [backoff EXCEPT ![t] = 0]
    /\ pc' = [pc EXCEPT ![t] = "check"]
    /\ UNCHANGED <<firedAt, build, cancelled, pending, input, worker, cfg, invocations,
                   active, waits, log>>

\* LoopInit of a loop that tests the signal at the bottom of each cycle
\* only: the first invocation is not preceded by a check.
LoopInitNoCheck(t) ==
    /\ pc[t] = "spawned"
    /\ backoff' = [backoff EXCEPT ![t] = cfg[t].MinBackoff]
    /\ pc' = [pc EXCEPT ![t] = "invoke"]
    /\ UNCHANGED <<firedAt, build, cancelled, pending, input, worker, cfg, invocations,
                   active, waits, log>>

\* Line 70: backoff := cfg.MinBackoff.
LoopInit(t) ==
    /\ pc[t] = "spawned"
    /\ backoff' = [backoff EXCEPT ![t] = cfg[t].MinBackoff]
    /\ pc' = [pc EXCEPT ![t] = "check"]
    /\ UNCHANGED <<firedAt, build, cancelled, pending, input, worker, cfg, invocations,
                   active, waits, log>>

\* CheckCancel with a restart limit: the loop gives up after three
\* invocations.
CheckCancelLimit(t) ==
    /\ pc[t] = "check"
    /\ IF cancelled \/ invocations[t] >= 3
       THEN /\ log' = [log EXCEPT ![t] = Append(@, StopNotice)]
            /\ pc' = [pc EXCEPT ![t] = "stopped"]
       ELSE /\ invocations[t] < MaxInvocations
            /\ pc' = [pc EXCEPT ![t] = "invoke"]
            /\ UNCHANGED log
    /\ UNCHANGED <<firedAt, build, cancelled, pending, input, worker, cfg, backoff,
                   invocations, active, waits>>

\* CheckCancel without the ctx.Done() case: the signal is never observed.
CheckCancelBlind(t) ==
    /\ pc[t] = "check"
    /\ invocations[t] < MaxInvocations
    /\ pc' = [pc EXCEPT ![t] = "invoke"]
    /\ UNCHANGED <<firedAt, build, cancelled, pending, input, worker, cfg, backoff,
                   invocations, active, waits, log>>

\* CheckCancel of a loop that looks at the signal before its first
\* invocation only.
CheckCancelFirstOnly(t) ==
    /\ pc[t] = "check"
    /\ IF cancelled /\ invocations[t] = 0
       THEN /\ log' = [log EXCEPT ![t] = Append(@, StopNotice)]
            /\ pc' = [pc EXCEPT ![t] = "stopped"]
       ELSE /\ invocations[t] < MaxInvocations
            /\ pc' = [pc EXCEPT ![t] = "invoke"]
            /\ UNCHANGED log
    /\ UNCHANGED <<firedAt, build, cancelled, pending, input, worker, cfg, backoff,
                   invocations, active, waits>>

\* Lines 73-78: the select at the top of each cycle.
CheckCancel(t) ==
    /\ pc[t] = "check"
    /\ IF cancelled
       THEN /\ log' = [log EXCEPT ![t] = Append(@, StopNotice)]
            /\ pc' = [pc EXCEPT ![t] = "stopped"]
       ELSE /\ invocations[t] < MaxInvocations
            /\ pc' = [pc EXCEPT ![t] = "invoke"]
            /\ UNCHANGED log
    /\ UNCHANGED <<firedAt, build, cancelled, pending, input, worker, cfg, backoff,
                   invocations, active, waits>>

\* Invoke that checks the signal once more and skips the call when it has
\* fired.
InvokeUnlessCancelled(t) ==
    /\ pc[t] = "invoke"
    /\ invocations[t] < MaxInvocations
    /\ IF cancelled
       THEN /\ pc' = [pc EXCEPT ![t] = "check"]
            /\ UNCHANGED <<invocations, active>>
       ELSE /\ invocations' = [invocations EXCEPT ![t] = @ + 1]
            /\ active' = [active EXCEPT ![t] = @ + 1]
            /\ pc' = [pc EXCEPT ![t] = "running"]
    /\ UNCHANGED <<firedAt, build, cancelled, pending, input, worker, cfg, backoff, waits, log>>

\* Invoke that starts the worker with "go worker(ctx)" and moves on.
InvokeAsync(t) ==
    /\ pc[t] = "invoke"
    /\ invocations[t] < MaxInvocations
    /\ invocations' = [invocations EXCEPT ![t] = @ + 1]
    /\ active' = [active EXCEPT ![t] = @ + 1]
    /\ pc' = [pc EXCEPT ![t] = "notice"]
    /\ UNCHANGED <<firedAt, build, cancelled, pending, input, worker, cfg, backoff, waits, log>>

\* Lines 80, 87: the closure is entered and worker(ctx) is called.
Invoke(t) ==
    /\ pc[t] = "invoke"
    /\ invocations[t] < MaxInvocations
    /\ invocations' = [invocations EXCEPT ![t] = @ + 1]
    /\ active' = [active EXCEPT ![t] = @ + 1]
    /\ pc' = [pc EXCEPT ![t] = "running"]
    /\ UNCHANGED <<firedAt, build, cancelled, pending, input, worker, cfg, backoff, waits, log>>

\* What the worker of task t may do in its current invocation.
CanReturn(t) ==
    \/ worker[t] \in {"returns", "arbitrary"}
    \/ worker[t] = "crashThenReturn" /\ invocations[t] >= 2
    \/ worker[t] = "crashThenWait" /\ invocations[t] >= 2 /\ cancelled
    \/ worker[t] = "waitsForCancel" /\ cancelled

CanPanic(t, p) ==
    \/ worker[t] \in {"crashes", "arbitrary"} /\ p = "boom"
    \/ worker[t] = "crashesNil" /\ p = "nil"
    \/ worker[t] \in {"crashThenReturn", "crashThenWait"}
          /\ invocations[t] = 1 /\ p = "boom"

\* WorkerReturn for a preemptive supervisor: the firing of the signal ends
\* the invocation whatever the worker does.
WorkerReturnOnCancel(t) ==
    /\ pc[t] = "running"
    /\ CanReturn(t) \/ cancelled
    /\ active' = [active EXCEPT ![t] = @ - 1]
    /\ pc' = [pc EXCEPT ![t] = "notice"]
    /\ UNCHANGED <<firedAt, build, cancelled, pending, input, worker, cfg, backoff,
                   invocations, waits, log>>

\* Line 87 returns; the deferred recover() yields nil and logs nothing.
WorkerReturn(t) ==
    /\ pc[t] = "running"
    /\ CanReturn(t)
    /\ active' = [active EXCEPT ![t] = @ - 1]
    /\ pc' = [pc EXCEPT ![t] = "notice"]
    /\ UNCHANGED <<firedAt, build, cancelled, pending, input, worker, cfg, backoff,
                   invocations, waits, log>>

\* What recover() yields for a panic with payload p.  panic(nil) yields nil
\* before Go 1.21 and a *runtime.PanicNilError from Go 1.21 on: which of
\* the two is a property of the build, settled at the first panic(nil).
Recovered(p) ==
    IF p # "nil" THEN {p}
    ELSE IF build = "unknown" THEN {"nil", "PanicNilError"}
    ELSE {build}

\* WorkerPanic without the deferred recover(): the panic unwinds the
\* goroutine, which ends.
WorkerPanicUnrecovered(t) ==
    /\ pc[t] = "running"
    /\ \E p \in Payloads : CanPanic(t, p)
    /\ active' = [active EXCEPT ![t] = @ - 1]
    /\ pc' = [pc EXCEPT ![t] = "stopped"]
    /\ UNCHANGED <<firedAt, build, cancelled, pending, input, worker, cfg, backoff,
                   invocations, waits, log>>

\* Line 87 panics; lines 81-85 recover and log the crash.
WorkerPanic(t) ==
    /\ pc[t] = "running"
    /\ \E p \in Payloads :
          /\ CanPanic(t, p)
          /\ \E r \in Recovered(p) :
                /\ log' = [log EXCEPT ![t] =
                              IF r # "nil" THEN Append(@, CrashNotice(r)) ELSE @]
                /\ build' = IF p = "nil" THEN r ELSE build
    /\ active' = [active EXCEPT ![t] = @ - 1]
    /\ pc' = [pc EXCEPT ![t] = "notice"]
    /\ UNCHANGED <<firedAt, cancelled, pending, input, worker, cfg, backoff,
                   invocations, waits>>

\* Lines 90-91: the restart notice is logged and time.Sleep(backoff) begins.
Restart(t) ==
    /\ pc[t] = "notice"
    /\ log' = [log EXCEPT ![t] = Append(@, RestartNotice(backoff[t]))]
    /\ pc' = [pc EXCEPT ![t] = "sleep"]
    /\ UNCHANGED <<firedAt, build, cancelled, pending, input, worker, cfg, backoff,
                   invocations, active, waits>>

\* SleepDone for an interruptible wait (a select on ctx.Done() and a
\* timer): once the signal has fired the wait is cut short.
SleepInterruptible(t) ==
    /\ pc[t] = "sleep"
    /\ IF cancelled
       THEN /\ pc' = [pc EXCEPT ![t] = "check"]
            /\ UNCHANGED waits
       ELSE /\ waits' = [waits EXCEPT ![t] = Append(@, backoff[t])]
            /\ pc' = [pc EXCEPT ![t] = "advance"]
    /\ UNCHANGED <<firedAt, build, cancelled, pending, input, worker, cfg, backoff,
                   invocations, active, log>>

\* Line 91: time.Sleep(backoff) returns (at once when backoff <= 0).
SleepDone(t) ==
    /\ pc[t] = "sleep"
    /\ waits' = [waits EXCEPT ![t] = Append(@, backoff[t])]
    /\ pc' = [pc EXCEPT ![t] = "advance"]
    /\ UNCHANGED <<firedAt, build, cancelled, pending, input, worker, cfg, backoff,
                   invocations, active, log>>

\* Advance that jumps back to the invocation, past the select.
AdvanceNoCheck(t) ==
    /\ pc[t] = "advance"
    /\ \E b \in NextBackoff(backoff[t], cfg[t].MaxBackoff) :
          backoff' = [backoff EXCEPT ![t] = b]
    /\ pc' = [pc EXCEPT ![t] = "invoke"]
    /\ UNCHANGED <<firedAt, build, cancelled, pending, input, worker, cfg, invocations,
                   active, waits, log>>

\* Advance on a backoff shared by all goroutines (a package-level
\* variable instead of the local of line 70).
AdvanceShared(t) ==
    /\ pc[t] = "advance"
    /\ \E b \in NextBackoff(backoff[t], cfg[t].MaxBackoff) :
          backoff' = [u \in Tasks |-> b]
    /\ pc' = [pc EXCEPT ![t] = "check"]
    /\ UNCHANGED <<firedAt, build, cancelled, pending, input, worker, cfg, invocations,
                   active, waits, log>>

\* Advance without the clamp: backoff = backoff * 2.
AdvanceUnclamped(t) ==
    /\ pc[t] = "advance"
    /\ backoff' = [backoff EXCEPT ![t] = WrapInt(backoff[t] * 2)]
    /\ pc' = [pc EXCEPT ![t] = "check"]
    /\ UNCHANGED <<firedAt, build, cancelled, pending, input, worker, cfg, invocations,
                   active, waits, log>>

\* Line 94: backoff = Duration(math.Min(float64(backoff*2), float64(Max))).
Advance(t) ==
    /\ pc[t] = "advance"
    /\ \E b \in NextBackoff(backoff[t], cfg[t].MaxBackoff) :
          backoff' = [backoff EXCEPT ![t] = b]
    /\ pc' = [pc EXCEPT ![t] = "check"]
    /\ UNCHANGED <<firedAt, build, cancelled, pending, input, worker, cfg, invocations,
                   active, waits, log>>

LoopStep(t) ==
    \/ LoopInit(t)
    \/ CheckCancel(t)
    \/ Invoke(t)
    \/ Restart(t)
    \/ SleepDone(t)
    \/ Advance(t)

WorkerStep(t) ==
    \/ WorkerReturn(t)
    \/ WorkerPanic(t)

Next ==
    \/ Cancel
    \/ \E t \in Tasks : Start(t)
    \/ \E t \in Tasks : LoopStep(t)
    \/ \E t \in Tasks : WorkerStep(t)

Spec == Init /\ [][Next]_vars

\* The goroutine is scheduled, time.Sleep returns, and a worker that can
\* return or panic does so.
FairSpec ==
    /\ Spec
    /\ \A t \in Tasks : WF_vars(LoopStep(t))
    /\ \A t \in Tasks : WF_vars(WorkerStep(t))

\* A caller that calls Start twice on one context.
InitTwo ==
    /\ cancelled = FALSE
    /\ pending = Tasks
    /\ input = [t \in Tasks |-> NoConfig]
    /\ worker = [t \in Tasks |-> "returns"]
    /\ cfg = [t \in Tasks |-> NoConfig]
    /\ pc = [t \in Tasks |-> "idle"]
    /\ backoff = [t \in Tasks |-> 0]
    /\ invocations = [t \in Tasks |-> 0]
    /\ active = [t \in Tasks |-> 0]
    /\ waits = [t \in Tasks |-> <<>>]
    /\ log = [t \in Tasks |-> <<>>]
    /\ firedAt = [t \in Tasks |-> NotFired]
    /\ build = "unknown"

NextTwo ==
    \/ Cancel
    \/ \E t \in Tasks : StartTwo(t)
    \/ \E t \in Tasks : LoopStep(t)
    \/ \E t \in Tasks : WorkerStep(t)

SpecTwo == InitTwo /\ [][NextTwo]_vars

\* A caller whose worker blocks on the signal (from its second invocation
\* on, or from the first).
WaitingWorkers == {"waitsForCancel", "crashThenWait"}

StartWaiting(t) == StartWith(t, Config, WaitingWorkers)

NextWaiting ==
    \/ Cancel
    \/ \E t \in Tasks : StartWaiting(t)
    \/ \E t \in Tasks : LoopStep(t)
    \/ \E t \in Tasks : WorkerStep(t)

FairSpecWaiting ==
    /\ Init /\ [][NextWaiting]_vars
    /\ \A t \in Tasks : WF_vars(LoopStep(t))
    /\ \A t \in Tasks : WF_vars(WorkerStep(t))

\* A caller that passes MinBackoff > MaxBackoff.
StartInverted(t) == StartWith(t, InvertedConfigs, WorkerKinds)

NextInverted ==
    \/ Cancel
    \/ \E t \in Tasks : StartInverted(t)
    \/ \E t \in Tasks : LoopStep(t)
    \/ \E t \in Tasks : WorkerStep(t)

SpecInverted == Init /\ [][NextInverted]_vars

\* ------------------------------------------------------------ properties

\* The phases of the supervision loop.
Phase(t) ==
    IF pc[t] = "stopped" THEN "Stopped"
    ELSE IF pc[t] = "sleep" THEN "Waiting"
    ELSE "Running"

Started(t) == pc[t] # "idle"

TypeOK ==
    /\ cancelled \in BOOLEAN
    /\ pending \subseteq Tasks
    /\ \A t \in Tasks :
          /\ pc[t] \in {"idle", "spawned", "check", "invoke", "running",
                        "notice", "sleep", "advance", "stopped"}
          /\ worker[t] \in WorkerKinds
          /\ invocations[t] \in 0..MaxInvocations
          /\ backoff[t] \in MinDuration..MaxDuration

Last(s) == s[Len(s)]

LastNotice(t, k) == Len(log[t]) > 0 /\ Last(log[t]).kind = k

\* C1: crash isolation.  Whenever an invocation of the worker ends, by a
\* return or by a panic with any payload, the supervising goroutine is at
\* its restart-delay step (line 90) with no invocation left in progress;
\* a panic never ends the goroutine.
C1_CrashIsolation ==
    [][\A t \in Tasks :
          (pc[t] = "running" /\ pc'[t] # "running")
             => (pc'[t] = "notice" /\ active'[t] = 0)]_vars

\* A panic has been recovered and the loop is about to log the restart delay.
C1_Witness ==
    \E t \in Tasks :
        /\ pc[t] = "notice"
        /\ LastNotice(t, "crash")
        /\ invocations[t] >= 2

\* C2: the loop is Stopped only if the signal has fired, it becomes Stopped
\* only at the top-of-cycle check, and after an invocation ends (crash or
\* return) the loop goes through the restart notice, the sleep and the
\* backoff step and, under FairSpec, arrives at the next top-of-cycle
\* check, however many invocations there have been.
C2_StoppedOnlyByCancel ==
    /\ \A t \in Tasks : pc[t] = "notice" ~> pc[t] = "check"
    /\ [](\A t \in Tasks : pc[t] = "stopped" => cancelled)
    /\ [][\A t \in Tasks :
             /\ (pc'[t] = "stopped" /\ pc[t] # "stopped")
                   => (pc[t] = "check" /\ cancelled)
             /\ pc[t] = "notice" => pc'[t] \in {"notice", "sleep"}
             /\ pc[t] = "sleep" => pc'[t] \in {"sleep", "advance"}
             /\ pc[t] = "advance" => pc'[t] \in {"advance", "check"}]_vars

\* Three crashes in a row, the signal not fired: the loop is back at its
\* check, not stopped.
C2_Witness ==
    \E t \in Tasks :
        /\ worker[t] = "crashes"
        /\ invocations[t] = 3
        /\ Len(waits[t]) = 3
        /\ pc[t] = "check"
        /\ ~cancelled

\* C3: with a worker whose invocations end (every worker but ignoresCancel,
\* under FairSpec), once the signal has fired a started loop eventually is
\* Stopped with the stop notice as its last log line, and a Stopped loop
\* stays Stopped and invokes the worker no more.
C3_GracefulShutdown ==
    /\ \A t \in Tasks :
          (cancelled /\ Started(t) /\ worker[t] # "ignoresCancel")
             ~> (pc[t] = "stopped" /\ LastNotice(t, "stop"))
    /\ [][\A t \in Tasks :
             pc[t] = "stopped"
                => /\ pc'[t] = "stopped"
                   /\ invocations'[t] = invocations[t]
                   /\ log'[t] = log[t]]_vars

\* A worker blocked on ctx.Done() was released by the signal and the loop
\* stopped.
C3_Witness ==
    \E t \in Tasks :
        /\ worker[t] = "waitsForCancel"
        /\ invocations[t] = 1
        /\ pc[t] = "stopped"
        /\ LastNotice(t, "stop")

Min2(a, b) == IF a <= b THEN a ELSE b

\* min(lo * 2^i, hi) for 0 < lo <= hi, computed without leaving the
\* integers of the model.
RECURSIVE Schedule(_, _, _)
Schedule(lo, hi, i) ==
    IF i = 0 THEN lo
    ELSE LET p == Schedule(lo, hi, i - 1)
         IN  IF p >= hi THEN hi ELSE Min2(2 * p, hi)

Ordered(t) == 0 < cfg[t].MinBackoff /\ cfg[t].MinBackoff <= cfg[t].MaxBackoff

\* C4: for a worker that crashes on every invocation and 0 < MinBackoff <=
\* MaxBackoff, the wait after the i-th invocation (i = 0, 1, ...) is
\* min(MinBackoff * 2^i, MaxBackoff).
C4_BackoffSchedule ==
    \A t \in Tasks :
        (worker[t] = "crashes" /\ Ordered(t))
           => \A i \in 1..Len(waits[t]) :
                 waits[t][i] =
                    Schedule(cfg[t].MinBackoff, cfg[t].MaxBackoff, i - 1)

\* C5 (P3): for 0 < MinBackoff <= MaxBackoff and consecutive crashes the
\* waits never decrease and never exceed MaxBackoff.
C5_WaitsMonotone ==
    \A t \in Tasks :
        (worker[t] = "crashes" /\ Ordered(t))
           => \A i \in 1..Len(waits[t]) :
                 /\ waits[t][i] <= cfg[t].MaxBackoff
                 /\ i < Len(waits[t]) => waits[t][i] <= waits[t][i + 1]

\* C6: for every configuration Start accepts (here: every one with positive
\* resolved bounds, in whatever order), once the goroutine has set backoff,
\* MinBackoff <= backoff <= MaxBackoff.
C6_BackoffWithinBounds ==
    \A t \in Tasks :
        (/\ pc[t] \notin {"idle", "spawned"}
         /\ cfg[t].MinBackoff > 0
         /\ cfg[t].MaxBackoff > 0)
           => /\ cfg[t].MinBackoff <= backoff[t]
              /\ backoff[t] <= cfg[t].MaxBackoff

\* C7 as stated: a worker that crashes on its first invocation and returns
\* on its second, the signal not fired, is invoked exactly twice, with a
\* wait of at least MinBackoff between the two invocations (checked for
\* 0 < MinBackoff <= MaxBackoff).
C7_ExactlyTwice ==
    \A t \in Tasks :
        (worker[t] = "crashThenReturn" /\ ~cancelled /\ Ordered(t))
           => /\ invocations[t] <= 2
              /\ invocations[t] = 2
                    => (Len(waits[t]) >= 1 /\ waits[t][1] >= cfg[t].MinBackoff)

\* C7 as amended: the second invocation comes after the crash notice, the
\* restart notice and one wait of MinBackoff; and the loop does not stop at
\* two invocations: unless the signal fires there is a third.
C7_RestartsAfterCrash ==
    /\ [](\A t \in Tasks :
             (worker[t] = "crashThenReturn" /\ invocations[t] >= 2)
                => /\ Len(waits[t]) >= 1
                   /\ waits[t][1] = cfg[t].MinBackoff
                   /\ log[t][1] = CrashNotice("boom")
                   /\ log[t][2] = RestartNotice(cfg[t].MinBackoff))
    /\ \A t \in Tasks :
          (worker[t] = "crashThenReturn" /\ Started(t))
             ~> (cancelled \/ invocations[t] >= 3)

\* The worker crashed once, returned once and is being invoked a third
\* time, the signal not fired.
C7_Witness ==
    \E t \in Tasks :
        /\ worker[t] = "crashThenReturn"
        /\ invocations[t] = 3
        /\ pc[t] = "running"
        /\ ~cancelled

\* C8: a worker that crashes on its first invocation and on its second
\* blocks until the signal fires is never invoked a third time; its second
\* invocation ends only after the signal has fired, and the loop then
\* stops with two invocations made.
C8_ExactlyTwoThenStop ==
    /\ [](\A t \in Tasks : worker[t] = "crashThenWait" => invocations[t] <= 2)
    /\ [][\A t \in Tasks :
             (/\ worker[t] = "crashThenWait"
              /\ invocations[t] = 2
              /\ pc[t] = "running"
              /\ pc'[t] # "running") => cancelled]_vars
    /\ \A t \in Tasks :
          (worker[t] = "crashThenWait" /\ invocations[t] = 2 /\ cancelled)
             ~> (pc[t] = "stopped" /\ invocations[t] = 2)

\* The second invocation was released by the signal and the loop stopped.
C8_Witness ==
    \E t \in Tasks :
        /\ worker[t] = "crashThenWait"
        /\ invocations[t] = 2
        /\ Len(waits[t]) = 2
        /\ pc[t] = "stopped"

\* C9: invocations and waits alternate, starting with an invocation: while
\* an invocation is running or its restart delay is pending the completed
\* waits number one less than the invocations begun, otherwise as many; and
\* a task has at most one invocation in progress, exactly while it is at
\* the call of line 87.
C9_Alternation ==
    \A t \in Tasks :
        /\ active[t] \in {0, 1}
        /\ active[t] = 1 <=> pc[t] = "running"
        /\ Len(waits[t]) =
              IF pc[t] \in {"running", "notice", "sleep"}
              THEN invocations[t] - 1
              ELSE invocations[t]

\* The second invocation is running after exactly one completed wait.
C9_Witness ==
    \E t \in Tasks :
        /\ pc[t] = "running"
        /\ invocations[t] = 2
        /\ Len(waits[t]) = 1
        /\ active[t] = 1

\* C10: Start accepts every configuration and resolves each field on its
\* own: MinBackoff 0 becomes 1s, MaxBackoff 0 becomes 30s, a nil Logger
\* becomes the default logger, and any other value is kept.
C10_Resolution ==
    /\ [](\A t \in Tasks :
             Started(t) =>
                /\ input[t].MinBackoff = 0 => cfg[t].MinBackoff = 1 * Second
                /\ input[t].MinBackoff # 0
                      => cfg[t].MinBackoff = input[t].MinBackoff
                /\ input[t].MaxBackoff = 0 => cfg[t].MaxBackoff = 30 * Second
                /\ input[t].MaxBackoff # 0
                      => cfg[t].MaxBackoff = input[t].MaxBackoff
                /\ input[t].Logger = "nil" => cfg[t].Logger = "default"
                /\ input[t].Logger # "nil" => cfg[t].Logger = input[t].Logger)
    /\ [][\A t \in Tasks :
             (t \in pending /\ t \notin pending')
                => (pc'[t] = "spawned" /\ input'[t] \in Config)]_vars

\* MinBackoff was defaulted while MaxBackoff and Logger were kept.
C10_Witness ==
    \E t \in Tasks :
        /\ Started(t)
        /\ input[t] = [MinBackoff |-> 0, MaxBackoff |-> 50 * Millisecond,
                       Logger |-> "custom"]
        /\ cfg[t] = [MinBackoff |-> 1 * Second, MaxBackoff |-> 50 * Millisecond,
                     Logger |-> "custom"]

\* What belongs to task t: its configuration and its supervision state.
TaskState(t) ==
    <<input[t], worker[t], cfg[t], pc[t], backoff[t], invocations[t],
      active[t], waits[t], log[t]>>

\* C11: a Start call spawns the goroutine of its own task only and returns
\* with no invocation made; and every step that changes something of one
\* task (a crash, a wait, a backoff change, ...) leaves everything of the
\* other tasks, their backoff and phase included, unchanged.
C11_Independence ==
    [][\A t \in Tasks :
          /\ (t \in pending /\ t \notin pending')
                => /\ pc'[t] = "spawned"
                   /\ invocations'[t] = 0
                   /\ active'[t] = 0
                   /\ pending' = pending \ {t}
          /\ TaskState(t)' # TaskState(t)
                => \A u \in Tasks \ {t} : TaskState(u)' = TaskState(u)]_vars

\* Both tasks run, with different backoffs: the first has crashed twice and
\* waits 20ms, the second is in its first invocation.
C11_Witness ==
    /\ worker[1] = "crashes"
    /\ pc[1] = "sleep"
    /\ backoff[1] = 20 * Millisecond
    /\ pc[2] = "running"
    /\ backoff[2] = 1 * Second
    /\ active[2] = 1

\* Whether the loop of task t had passed its first check when the signal
\* fired.
PassedFirstCheck(t) == firedAt[t].checked \/ firedAt[t].invocations >= 1

C13_Cooperative ==
    /\ [][\A t \in Tasks :
             worker[t] = "ignoresCancel" /\ pc[t] = "running"
                => /\ pc'[t] = "running"
                   /\ invocations'[t] = invocations[t]
                   /\ log'[t] = log[t]]_vars
    /\ [](\A t \in Tasks :
             worker[t] = "ignoresCancel" /\ invocations[t] >= 1
                => /\ pc[t] = "running"
                   /\ Phase(t) = "Running"
                   /\ invocations[t] = 1
                   /\ active[t] = 1
                   /\ log[t] = <<>>)

C13_Witness ==
    /\ worker[1] = "ignoresCancel"
    /\ pc[1] = "running"
    /\ cancelled
    /\ firedAt[1].invocations = 1

\* The crash notices task t has logged, and the invocations that have ended.
CrashNotices(t) == {i \in 1..Len(log[t]) : log[t][i].kind = "crash"}

Ended(t) == invocations[t] - active[t]

\* The invocations of task t that have ended in a crash, for the workers
\* whose outcomes are fixed.
Crashes(t) ==
    IF worker[t] \in {"crashes", "crashesNil"} THEN Ended(t)
    ELSE IF worker[t] \in {"crashThenReturn", "crashThenWait"}
         THEN Min2(Ended(t), 1)
    ELSE 0

\* C14: crash notices match crashes one to one, whatever the payload: there
\* are as many crash notices as invocations ended in a crash (none for a
\* worker that only returns), and each crash notice is followed by the
\* restart notice of its cycle.
C14_CrashNotices ==
    \A t \in Tasks :
       /\ worker[t] # "arbitrary" => Cardinality(CrashNotices(t)) = Crashes(t)
       /\ \A i \in CrashNotices(t) :
             i < Len(log[t]) => log[t][i + 1].kind = "restart"

\* C15: currentBackoff advances after every invocation regardless of its
\* outcome.  For every worker, crashing, returning or mixing the two, and
\* positive bounds: each invocation that has ended is followed by a wait,
\* the first wait is MinBackoff, each later wait is min(2 * w, MaxBackoff)
\* of the wait w before it (never MinBackoff again unless that is the
\* minimum), and for MinBackoff <= MaxBackoff no wait is shorter than the
\* one before it.
C15_AdvanceAlways ==
    \A t \in Tasks :
       (cfg[t].MinBackoff > 0 /\ cfg[t].MaxBackoff > 0)
          => /\ Len(waits[t]) =
                   Ended(t) - (IF pc[t] \in {"notice", "sleep"} THEN 1 ELSE 0)
             /\ Len(waits[t]) >= 1 => waits[t][1] = cfg[t].MinBackoff
             /\ \A i \in 1..(Len(waits[t]) - 1) :
                   /\ waits[t][i + 1] = Min2(2 * waits[t][i], cfg[t].MaxBackoff)
                   /\ Ordered(t) => waits[t][i] <= waits[t][i + 1]
             /\ pc[t] \in {"check", "invoke", "running", "notice", "sleep"}
                   /\ Len(waits[t]) >= 1
                   => backoff[t] = Min2(2 * Last(waits[t]), cfg[t].MaxBackoff)

\* The waits task t has completed since the signal fired.
WaitsSinceFired(t) == Len(waits[t]) - firedAt[t].waits

\* C16: the backoff wait is not interruptible.  The loop leaves Waiting
\* only by completing the wait of the full currentBackoff, whether or not
\* the signal has fired; it becomes Stopped only from the top-of-cycle
\* check; and after the signal has fired it completes at most one more
\* wait.
C16_WaitNotInterruptible ==
    /\ [][\A t \in Tasks :
             /\ pc[t] = "sleep" /\ pc'[t] # "sleep"
                   => /\ pc'[t] = "advance"
                      /\ waits'[t] = Append(waits[t], backoff[t])
             /\ pc[t] # "stopped" /\ pc'[t] = "stopped"
                   => pc[t] = "check" /\ cancelled]_vars
    /\ [](\A t \in Tasks :
             /\ Phase(t) = "Waiting" => pc[t] # "stopped"
             /\ firedAt[t].fired => WaitsSinceFired(t) \in {0, 1}
             /\ firedAt[t].fired /\ pc[t] \in {"advance", "check", "stopped"}
                   /\ firedAt[t].invocations > firedAt[t].waits
                   => WaitsSinceFired(t) = 1)

C16_Witness ==
    /\ worker[1] = "crashes"
    /\ pc[1] = "stopped"
    /\ firedAt[1].invocations = 2
    /\ firedAt[1].waits = 1
    /\ waits[1] = <<10 * Millisecond, 20 * Millisecond>>

\* C17: when the signal has already fired at the first top-of-cycle check
\* of a task (it fired before Start was called, or before the goroutine got
\* to its first select), the worker is never invoked: the task logs nothing
\* but the stop notice and is Stopped with zero invocations and zero waits.
C17_NeverInvoked ==
    \A t \in Tasks :
       (firedAt[t].fired /\ ~PassedFirstCheck(t))
          => /\ invocations[t] = 0
             /\ active[t] = 0
             /\ waits[t] = <<>>
             /\ pc[t] \in {"idle", "spawned", "check", "stopped"}
             /\ log[t] = IF pc[t] = "stopped" THEN <<StopNotice>> ELSE <<>>

C17_Witness ==
    /\ firedAt[1].fired
    /\ firedAt[1].invocations = 0
    /\ ~firedAt[1].checked
    /\ worker[1] = "crashes"
    /\ pc[1] = "stopped"
    /\ log[1] = <<StopNotice>>

\* The invocations of task t begun since the signal fired.
InvocationsSinceFired(t) == invocations[t] - firedAt[t].invocations

\* C18: the signal can fire between the top-of-cycle check and the start of
\* the invocation.  In every interleaving at most one invocation begins
\* after the signal has fired, and one does only when the signal fired
\* after the check and before the invocation started; in that case the
\* invocation does begin.
C18_AtMostOneLate ==
    \A t \in Tasks :
       firedAt[t].fired
          => /\ InvocationsSinceFired(t) \in {0, 1}
             /\ InvocationsSinceFired(t) = 1 => firedAt[t].checked
             /\ firedAt[t].checked /\ pc[t] # "invoke"
                   => InvocationsSinceFired(t) = 1

C18_Witness ==
    /\ worker[1] = "returns"
    /\ firedAt[1].fired
    /\ firedAt[1].checked
    /\ firedAt[1].invocations = 1
    /\ invocations[1] = 2
    /\ pc[1] = "stopped"

Inverted(t) == cfg[t].MinBackoff > cfg[t].MaxBackoff /\ cfg[t].MaxBackoff > 0

\* Whether task t is in its first cycle: line 94 has not run yet.
FirstCycle(t) ==
    \/ Len(waits[t]) = 0
    \/ pc[t] = "advance" /\ Len(waits[t]) = 1

\* C19 (as claimed): for MinBackoff > MaxBackoff > 0, currentBackoff >
\* MaxBackoff holds in every cycle of the loop.
C19_AboveMaxForever ==
    \A t \in Tasks :
       (Inverted(t) /\ pc[t] \notin {"idle", "spawned"})
          => backoff[t] > cfg[t].MaxBackoff

\* C19 (amended): for MinBackoff > MaxBackoff > 0, currentBackoff is
\* MinBackoff, above MaxBackoff, in the first cycle only, so the first wait
\* is MinBackoff.  From the first advance on it is at most MaxBackoff as
\* float64 rounds it, and exactly MaxBackoff when MaxBackoff has an exact
\* float64 and MinBackoff * 2 does not wrap around.
C19_AboveMaxFirstCycleOnly ==
    \A t \in Tasks :
       (Inverted(t) /\ pc[t] \notin {"idle", "spawned"})
          => /\ Len(waits[t]) >= 1 => waits[t][1] = cfg[t].MinBackoff
             /\ IF FirstCycle(t)
                THEN backoff[t] = cfg[t].MinBackoff
                ELSE /\ backoff[t] <= ToFloat64(cfg[t].MaxBackoff)
                     /\ (/\ cfg[t].MaxBackoff <= Pow2(MantissaBits)
                         /\ cfg[t].MinBackoff * 2 <= MaxDuration)
                           => backoff[t] = cfg[t].MaxBackoff

C19_Witness ==
    /\ cfg[1].MinBackoff = 1 * Second
    /\ cfg[1].MaxBackoff = 10 * Millisecond
    /\ worker[1] = "crashes"
    /\ pc[1] = "sleep"
    /\ waits[1] = <<1 * Second, 10 * Millisecond>>
    /\ backoff[1] = 10 * Millisecond

\* C20: once currentBackoff equals MaxBackoff it stays equal to MaxBackoff
\* on every later cycle, for every positive MaxBackoff a duration can hold,
\* also above half the largest duration, where currentBackoff * 2 wraps
\* around.
C20_StaysAtMax ==
    [][\A t \in Tasks :
          (/\ pc[t] \notin {"idle", "spawned"}
           /\ cfg[t].MaxBackoff > 0
           /\ backoff[t] = cfg[t].MaxBackoff)
             => backoff'[t] = cfg[t].MaxBackoff]_vars

====
